---- MODULE Spec2Model ----
(***************************************************************************)
(* Time-Warp-O-Matic.                                                      *)
(*                                                                         *)
(* Part 1: the wear-levelled settings store (class Eeprom,                 *)
(* "Eeprom-O-Matic") over a byte-addressable EEPROM.                       *)
(*                                                                         *)
(* The EEPROM is modelled byte by byte.  A 4-byte unsigned long is the     *)
(* tuple of its four bytes, so the three markers are                       *)
(*   DATA_MARKER  0x66666666 = <<102,102,102,102>>                         *)
(*   ERASE_MARKER 0x33333333 = << 51, 51, 51, 51>>                         *)
(*   EMPTY_MARKER 0x22222222 = << 34, 34, 34, 34>>                         *)
(* A SettingsObjType value is the sequence of the bytes of its object      *)
(* representation (EEPROM.put / EEPROM.get copy these bytes one by one).   *)
(* Every EEPROM.put of Eeprom::write is a step of its own, because a power *)
(* loss can fall between any two of them.                                  *)
(*                                                                         *)
(* Part 2: the sketch (setup, loop and the interrupt service routines      *)
(* rotate, extClock and the button callbacks) on top of that store.  The   *)
(* global object "settings" of the sketch is the variable p, the object    *)
(* that setup() hands to read(); the variable settings is the by-value     *)
(* argument of the write() in progress.  A 32-bit unsigned long is a pair  *)
(* <<high 16 bits, low 16 bits>>.                                          *)
(***************************************************************************)
EXTENDS Integers, Sequences, FiniteSets, TLC

\* ------------------------------------------------------------------ bounds
MaxWords        == 5    \* largest eeprom_sizeInBytes explored, in 4-byte words
MaxSettingsSize == 8    \* largest sizeof(SettingsObjType) explored

\* --------------------------------------------------------------- constants
SIZE_OF_DATA_MARKER == 4
DATA_MARKER  == <<102, 102, 102, 102>>
ERASE_MARKER == <<51, 51, 51, 51>>
EMPTY_MARKER == <<34, 34, 34, 34>>
NR_OF_EFFECTS  == 13
DELAY_TIME_MIN == 7
INITIAL_EFFECT == 1
NR_OF_MULT_FACTORS == 16
DECELERATOR_UPDATE_TIME_MAX == 100
WOW_NOT_FLUTTER_TIME_MAX    == 60
UINT16 == 65536
ErasedByte == 255           \* content of a cell that was never programmed
NotFound == 0 - 1           \* the value -1 returned by read() and write()

\* Number of write() calls followed in one power session.
MaxWrites == ((MaxWords + 1) \div 2) + 1

VARIABLES
    SIZE_OF_SETTINGS_STRUCT, \* sizeof(SettingsObjType) of this build
    eeprom_sizeInBytes,      \* Eeprom::eeprom_sizeInBytes
    addressWraps,            \* hardware: an address past the array wraps around
    EEPROM,                  \* the memory cells, 0 .. eeprom_sizeInBytes-1
    eeprom_currentAddress,   \* Eeprom::eeprom_currentAddress (the cursor)
    eeprom_dataItem,         \* Eeprom::eeprom_dataItem
    blocked,                 \* Eeprom::blocked
    pc,                      \* "off", "idle", or the position inside write()
    settings,                \* the argument of the write() in progress
    p,                       \* the caller's SettingsObjType that read() fills
    ret,                     \* return value of the last completed call
    serialMsg,               \* what the last completed call printed
    lastOps,                 \* the last two completed calls
    lastWritten,             \* argument of the last write(), once it completed
    writeAddrs,              \* cursor after each completed write() of this session
    firstUse,                \* init() of this session took the first-use path
    crashPoint               \* pc at the moment of the last power loss

eepromVars == <<SIZE_OF_SETTINGS_STRUCT, eeprom_sizeInBytes, addressWraps, EEPROM,
                eeprom_currentAddress, eeprom_dataItem, blocked, pc, settings, p,
                ret, serialMsg, lastOps, lastWritten, writeAddrs, firstUse,
                crashPoint>>

VARIABLES
    at,                      \* "off", "setup" (after the constructor), "loop",
                             \* "switch" (before the effect switch of loop()),
                             \* "case" (before the case of the active effect),
                             \* "persist" (before writeSettingsToEeprom()),
                             \* "copy" (while the argument of write() is
                             \* copied) or "timeout" (while the clock timeout
                             \* test is evaluated)
    now,                     \* milliseconds since power-on, modulo 2^32
    inSelectMode,            \* encoder selects the effect / sets its parameter
    fineTuneDelayTime,       \* fine tuning switched on by a double click
    countDirection,          \* RIGHT or LEFT, as the byte it is stored in
    loopb,                   \* forces the effect switch of loop()
    onlyOnce,                \* forces the effect switch of the first loop()
    useSymbolicTimeString,   \* an external clock is present
    cycleTime,               \* mean time between clock pulses, microseconds
    irqCounter,              \* clock pulses in the accumulator
    sumTime,                 \* sum of the intervals in the accumulator
    oldTime,                 \* micros() at the previous clock pulse
    thisTime,                \* micros() at the last clock pulse
    oldEffect,               \* effect seen by the previous loop()
    oldDelayTime,            \* delay times seen by the previous loop()
    writeToEeprom,           \* a deferred write is pending
    writeTimer,              \* millis() value after which it is due
    sinceMark,               \* true time since the last updateEepromTimer()
    marks,                   \* the calls of updateEepromTimer(): time since the
                             \* call before, and whether loop() polled later than
                             \* the write delay after the call
    polls,                   \* loop() iterations since the last event
    lastEvent,               \* the last handler that ran
    isr,                     \* it ran inside an interrupt service routine
    tmp,                     \* what loop() holds in registers and on its stack
                             \* between two of its steps; <<>> when nothing
    budget                   \* events and time steps still to be explored

sketchVars == <<at, now, inSelectMode, fineTuneDelayTime, countDirection, loopb,
                onlyOnce, useSymbolicTimeString, cycleTime, irqCounter, sumTime,
                oldTime, thisTime, oldEffect, oldDelayTime, writeToEeprom,
                writeTimer, sinceMark, marks, polls, lastEvent, isr, tmp,
                budget>>

vars == <<eepromVars, sketchVars>>

config == <<SIZE_OF_SETTINGS_STRUCT, eeprom_sizeInBytes, addressWraps>>

\* ------------------------------------------------------- SettingsObjType
\* Offsets are 1-based: 1..13 delayTime[], 14 isWetAndDrySelected,
\* 15 effect, 16..28 baseFactorIndex[], beyond that padding bytes.
FieldMin(i) == IF i <= NR_OF_EFFECTS THEN DELAY_TIME_MIN ELSE 0

FieldMax(i) ==
    IF i = 1 THEN DECELERATOR_UPDATE_TIME_MAX
    ELSE IF i = 10 THEN WOW_NOT_FLUTTER_TIME_MAX
    ELSE IF i <= NR_OF_EFFECTS THEN 255
    ELSE IF i = NR_OF_EFFECTS + 1 THEN 1
    ELSE IF i = NR_OF_EFFECTS + 2 THEN NR_OF_EFFECTS - 1
    ELSE IF i <= 2 * NR_OF_EFFECTS + 2 THEN NR_OF_MULT_FACTORS - 1
    ELSE 255

ValidSettings(s) == \A i \in DOMAIN s : s[i] >= FieldMin(i) /\ s[i] <= FieldMax(i)

\* The object as the program image holds it before anything is read:
\* zero-initialised, effect = INITIAL_EFFECT.
DefaultSettings(size) ==
    [i \in 1..size |-> IF i = NR_OF_EFFECTS + 2 THEN INITIAL_EFFECT ELSE 0]

Min(a, b) == IF a < b THEN a ELSE b

\* Settings values: every field at its minimum; every field different;
\* delayTime[4..7] (Echo2, Echo3, Chorus, Fast Chorus) all set to 102 = 0x66;
\* every delayTime set to 34 = 0x22.
SettingsLow(size)   == [i \in 1..size |-> FieldMin(i)]
SettingsMixed(size) == [i \in 1..size |-> Min(FieldMin(i) + i, FieldMax(i))]
SettingsSixes(size) == [i \in 1..size |-> IF i \in 5..8 THEN 102 ELSE FieldMin(i)]
SettingsTwos(size)  ==
    [i \in 1..size |-> IF i <= NR_OF_EFFECTS THEN 34 ELSE FieldMin(i)]

SettingsValues(size) ==
    {s \in {SettingsTwos(size), SettingsMixed(size), SettingsSixes(size)} :
        ValidSettings(s)}

\* ---------------------------------------------------------------- EEPROM
\* The cell an address selects.  Inside the array it is the address itself.
\* Past the end the address register either drops its high bits (the access
\* wraps around to the start) or selects no cell at all.
Cell(address, size, wraps) ==
    IF address < size THEN address
    ELSE IF wraps /\ size > 0 THEN address % size
    ELSE NotFound

\* EEPROM.read / EEPROM[address]
ReadByte(mem, address, size, wraps) ==
    IF Cell(address, size, wraps) = NotFound THEN ErasedByte
    ELSE mem[Cell(address, size, wraps)]

\* EEPROM.get(address, t): sizeof(t) bytes from address upward.
Get(mem, address, length, size, wraps) ==
    [k \in 1..length |-> ReadByte(mem, address + k - 1, size, wraps)]

\* EEPROM.put(address, t): the bytes of t from address upward, lowest first,
\* so of two bytes that land in one cell the later one stays.
Put(mem, address, bytes, size, wraps) ==
    [c \in DOMAIN mem |->
        LET hits == {k \in 1..Len(bytes) : Cell(address + k - 1, size, wraps) = c}
        IN  IF hits = {} THEN mem[c]
            ELSE bytes[CHOOSE k \in hits : \A j \in hits : j <= k]]

\* ------------------------------------------------------------ Eeprom::init
\* The addresses the for-loop of init() visits when it finds nothing.
ScanAddresses(size, recordSize) ==
    {a \in 0..(((size - recordSize) % UINT16) - 1) : a % SIZE_OF_DATA_MARKER = 0}

\* The addresses among them that hold a DATA_MARKER.
ScanHits(mem, size, recordSize, wraps) ==
    {a \in ScanAddresses(size, recordSize) :
        Get(mem, a, SIZE_OF_DATA_MARKER, size, wraps) = DATA_MARKER}

SetMin(S) == CHOOSE a \in S : \A b \in S : a <= b
SetMax(S) == CHOOSE a \in S : \A b \in S : b <= a

\* Mutant: the alignment test takes the marker for two bytes long.
IsMisaligned_Mod2(recordSize) == (recordSize % 2) # 0

IsMisaligned(recordSize) == (recordSize % SIZE_OF_DATA_MARKER) # 0
IsTooLarge(size, recordSize) == (recordSize + SIZE_OF_DATA_MARKER) > size

\* A value an uninitialised unsigned int may hold.
IndeterminateAddresses == {0, 1}

\* ----------------------------------------------------------- Eeprom::write
\* The address write() moves the cursor to when the cursor holds no
\* EMPTY_MARKER.
TmpAddress(current, recordSize) ==
    (current + recordSize + SIZE_OF_DATA_MARKER) % UINT16

\* Mutant: the end-of-memory test compares with the size, not size - 1.
PastTheEnd_OffByOne(current, size, recordSize) ==
    TmpAddress(current, recordSize) > size % UINT16

\* "There is insufficient room near the end of the eeprom."
PastTheEnd(current, size, recordSize) ==
    TmpAddress(current, recordSize) > (size - 1) % UINT16

\* Mutant: the cursor always advances and never returns to address 0.
NextAddress_NoWrap(current, size, recordSize) == TmpAddress(current, recordSize)

NextAddress(current, size, recordSize) ==
    IF PastTheEnd(current, size, recordSize) THEN 0
    ELSE TmpAddress(current, recordSize)

\* Where write() puts the marker, given what it read at the cursor.
WriteAddress(current, dataItem, size, recordSize) ==
    IF dataItem = EMPTY_MARKER THEN current
    ELSE NextAddress(current, size, recordSize)

\* ------------------------------------------------------------ Eeprom::read
\* Mutant: read() without its size test.
ReadTooSmall_Never(current, size, recordSize) == FALSE

\* read() gives up before looking at the memory.
ReadTooSmall(current, size, recordSize) == (current + recordSize) % UINT16 > size

\* The value read() returns.
ReadReturn(mem, current, size, recordSize, wraps, isBlocked) ==
    IF isBlocked THEN NotFound
    ELSE IF ReadTooSmall(current, size, recordSize) THEN NotFound
    ELSE IF Get(mem, current, SIZE_OF_DATA_MARKER, size, wraps) = DATA_MARKER
         THEN recordSize
    ELSE NotFound

\* The bytes read() copies into *p when it returns a record.
ReadRecord(mem, current, size, recordSize, wraps) ==
    Get(mem, current + SIZE_OF_DATA_MARKER, recordSize, size, wraps)

\* ------------------------------------------------------------ Eeprom::init
\* The cursor init() ends with on an aligned record that fits.
InitAddress(mem, size, recordSize, wraps) ==
    IF ScanHits(mem, size, recordSize, wraps) # {}
    THEN SetMin(ScanHits(mem, size, recordSize, wraps))
    ELSE 0

\* Mutant: init() leaves the memory alone when it finds no marker.
InitMemory_NoSentinel(mem, size, recordSize, wraps) == mem

\* The memory init() leaves: untouched when a marker was found, else with
\* the EMPTY_MARKER at address 0.
InitMemory(mem, size, recordSize, wraps) ==
    IF ScanHits(mem, size, recordSize, wraps) # {} THEN mem
    ELSE Put(mem, 0, EMPTY_MARKER, size, wraps)

\* eeprom_dataItem after init(): the last word the loop fetched.
InitDataItem(mem, size, recordSize, wraps) ==
    IF ScanHits(mem, size, recordSize, wraps) # {} THEN DATA_MARKER
    ELSE IF ScanAddresses(size, recordSize) = {} THEN <<0, 0, 0, 0>>
    ELSE Get(mem, SetMax(ScanAddresses(size, recordSize)), SIZE_OF_DATA_MARKER,
             size, wraps)

\* ------------------------------------------------------------------ state
Push(ops, op) == <<ops[2], op>>

\* Everything held in RAM, as it is while the device has no power.
RamOff ==
    /\ eeprom_currentAddress = 0
    /\ eeprom_dataItem = <<0, 0, 0, 0>>
    /\ blocked = FALSE
    /\ settings = <<>>
    /\ p = DefaultSettings(SIZE_OF_SETTINGS_STRUCT)
    /\ ret = 0
    /\ serialMsg = "none"
    /\ writeAddrs = <<>>
    /\ firstUse = FALSE

\* The globals of the sketch as the program image initialises them.
U32Zero == <<0, 0>>
RIGHT == 1
LEFT  == 255                \* -1 stored in the byte countDirection

SketchOff ==
    /\ at = "off"
    /\ now = U32Zero
    /\ inSelectMode = TRUE
    /\ fineTuneDelayTime = FALSE
    /\ countDirection = RIGHT
    /\ loopb = FALSE
    /\ onlyOnce = FALSE
    /\ useSymbolicTimeString = FALSE
    /\ cycleTime = 0
    /\ irqCounter = 0
    /\ sumTime = U32Zero
    /\ oldTime = U32Zero
    /\ thisTime = U32Zero
    /\ oldEffect = 0 - 1
    /\ oldDelayTime = [e \in 0..(NR_OF_EFFECTS - 1) |-> 0]
    /\ writeToEeprom = FALSE
    /\ writeTimer = U32Zero
    /\ sinceMark = 0
    /\ marks = <<>>
    /\ polls = 0
    /\ lastEvent = "off"
    /\ isr = FALSE
    /\ tmp = <<>>

\* Nothing of the sketch is explored while the store is examined on its own.
NoBudget == [events |-> 0, ticks |-> 0, pulses |-> 0]

\* A device that was never switched on: the memory is as delivered.
InitWith(sizes, recordSizes) ==
    /\ SIZE_OF_SETTINGS_STRUCT \in recordSizes
    /\ eeprom_sizeInBytes \in sizes
    /\ addressWraps \in BOOLEAN
    /\ EEPROM = [c \in 0..(eeprom_sizeInBytes - 1) |-> ErasedByte]
    /\ pc = "off"
    /\ RamOff
    /\ lastOps = <<"off", "off">>
    /\ lastWritten = <<>>
    /\ crashPoint = "idle"
    /\ SketchOff

\* The sizes explored are whole numbers of 4-byte words.
Sizes == {SIZE_OF_DATA_MARKER * w : w \in 1..MaxWords}

Init == InitWith(Sizes, 1..MaxSettingsSize) /\ budget = NoBudget

\* setup(): eeprom = Eeprom(EEPROM.length()), i.e. the constructor and init().
Boot ==
    /\ pc = "off"
    /\ pc' = "idle"
    /\ IF IsMisaligned(SIZE_OF_SETTINGS_STRUCT)
       THEN /\ blocked' = TRUE
            /\ eeprom_currentAddress' \in IndeterminateAddresses
            /\ serialMsg' = "printError"
            /\ UNCHANGED <<EEPROM, eeprom_dataItem, firstUse>>
       ELSE IF IsTooLarge(eeprom_sizeInBytes, SIZE_OF_SETTINGS_STRUCT)
       THEN /\ eeprom_currentAddress' = 0
            /\ serialMsg' = "too large"
            /\ UNCHANGED <<EEPROM, eeprom_dataItem, blocked, firstUse>>
       ELSE /\ eeprom_currentAddress' =
                  InitAddress(EEPROM, eeprom_sizeInBytes,
                              SIZE_OF_SETTINGS_STRUCT, addressWraps)
            /\ EEPROM' = InitMemory(EEPROM, eeprom_sizeInBytes,
                                    SIZE_OF_SETTINGS_STRUCT, addressWraps)
            /\ eeprom_dataItem' =
                  InitDataItem(EEPROM, eeprom_sizeInBytes,
                               SIZE_OF_SETTINGS_STRUCT, addressWraps)
            /\ firstUse' = (ScanHits(EEPROM, eeprom_sizeInBytes,
                                     SIZE_OF_SETTINGS_STRUCT, addressWraps) = {})
            /\ serialMsg' = IF firstUse' THEN "none" ELSE "found"
            /\ UNCHANGED blocked
    /\ lastOps' = Push(lastOps, "init")
    /\ UNCHANGED <<config, settings, p, ret, lastWritten, writeAddrs, crashPoint>>

\* write(), blocked: print the error and return -1.
WriteBlocked(s) ==
    /\ pc = "idle"
    /\ blocked
    /\ ret' = NotFound
    /\ serialMsg' = "printError"
    /\ lastOps' = Push(lastOps, "write")
    /\ UNCHANGED <<config, EEPROM, eeprom_currentAddress, eeprom_dataItem, blocked,
                   pc, settings, p, lastWritten, writeAddrs, firstUse, crashPoint>>

\* write(), first part: fetch the word at the cursor, then eraseMarkerByte().
WriteErase(s, limit) ==
    /\ pc = "idle"
    /\ ~blocked
    /\ Len(writeAddrs) < limit
    /\ eeprom_dataItem' = Get(EEPROM, eeprom_currentAddress, SIZE_OF_DATA_MARKER,
                              eeprom_sizeInBytes, addressWraps)
    /\ EEPROM' = Put(EEPROM, eeprom_currentAddress, ERASE_MARKER,
                     eeprom_sizeInBytes, addressWraps)
    /\ settings' = s
    /\ pc' = "erased"
    /\ lastWritten' = <<>>
    /\ UNCHANGED <<config, eeprom_currentAddress, blocked, p, ret, serialMsg,
                   lastOps, writeAddrs, firstUse, crashPoint>>

\* write(), second part: choose the address and put the DATA_MARKER there.
WriteMarker ==
    /\ pc = "erased"
    /\ eeprom_currentAddress' =
          WriteAddress(eeprom_currentAddress, eeprom_dataItem,
                       eeprom_sizeInBytes, SIZE_OF_SETTINGS_STRUCT)
    /\ EEPROM' = Put(EEPROM, eeprom_currentAddress', DATA_MARKER,
                     eeprom_sizeInBytes, addressWraps)
    /\ serialMsg' =
          IF /\ eeprom_dataItem # EMPTY_MARKER
             /\ PastTheEnd(eeprom_currentAddress, eeprom_sizeInBytes,
                           SIZE_OF_SETTINGS_STRUCT)
          THEN "past the end" ELSE "none"
    /\ pc' = "marked"
    /\ UNCHANGED <<config, eeprom_dataItem, blocked, settings, p, ret, lastOps,
                   lastWritten, writeAddrs, firstUse, crashPoint>>

\* write(), third part: put the settings behind the marker and return.
WriteSettings ==
    /\ pc = "marked"
    /\ EEPROM' = Put(EEPROM, eeprom_currentAddress + SIZE_OF_DATA_MARKER, settings,
                     eeprom_sizeInBytes, addressWraps)
    /\ ret' = SIZE_OF_SETTINGS_STRUCT + SIZE_OF_DATA_MARKER
    /\ pc' = "idle"
    /\ settings' = <<>>
    /\ lastOps' = Push(lastOps, "write")
    /\ lastWritten' = settings
    /\ writeAddrs' = Append(writeAddrs, eeprom_currentAddress)
    /\ UNCHANGED <<config, eeprom_currentAddress, eeprom_dataItem, blocked, p,
                   serialMsg, firstUse, crashPoint>>

\* read(&p)
Read ==
    /\ pc = "idle"
    /\ ret' = ReadReturn(EEPROM, eeprom_currentAddress, eeprom_sizeInBytes,
                         SIZE_OF_SETTINGS_STRUCT, addressWraps, blocked)
    /\ p' = IF ret' = NotFound THEN p
            ELSE ReadRecord(EEPROM, eeprom_currentAddress, eeprom_sizeInBytes,
                            SIZE_OF_SETTINGS_STRUCT, addressWraps)
    /\ serialMsg' =
          IF blocked THEN "printError"
          ELSE IF ReadTooSmall(eeprom_currentAddress, eeprom_sizeInBytes,
                               SIZE_OF_SETTINGS_STRUCT)
          THEN "too small" ELSE "none"
    /\ eeprom_dataItem' =
          IF blocked \/ ReadTooSmall(eeprom_currentAddress, eeprom_sizeInBytes,
                                     SIZE_OF_SETTINGS_STRUCT)
          THEN eeprom_dataItem
          ELSE Get(EEPROM, eeprom_currentAddress, SIZE_OF_DATA_MARKER,
                   eeprom_sizeInBytes, addressWraps)
    /\ lastOps' = Push(lastOps, "read")
    /\ UNCHANGED <<config, EEPROM, eeprom_currentAddress, blocked, pc, settings,
                   lastWritten, writeAddrs, firstUse, crashPoint>>

\* The supply fails; the EEPROM keeps its cells, the RAM is lost.
PowerLoss ==
    /\ pc # "off"
    /\ UNCHANGED <<config, EEPROM, lastWritten>>
    /\ pc' = "off"
    /\ crashPoint' = pc
    /\ eeprom_currentAddress' = 0
    /\ eeprom_dataItem' = <<0, 0, 0, 0>>
    /\ blocked' = FALSE
    /\ settings' = <<>>
    /\ p' = DefaultSettings(SIZE_OF_SETTINGS_STRUCT)
    /\ ret' = 0
    /\ serialMsg' = "none"
    /\ writeAddrs' = <<>>
    /\ firstUse' = FALSE
    /\ lastOps' = <<"off", "off">>

Write ==
    \E s \in SettingsValues(SIZE_OF_SETTINGS_STRUCT) :
        WriteBlocked(s) \/ WriteErase(s, MaxWrites)

Next ==
    \/ Boot /\ UNCHANGED sketchVars
    \/ Write /\ UNCHANGED sketchVars
    \/ WriteMarker /\ UNCHANGED sketchVars
    \/ WriteSettings /\ UNCHANGED sketchVars
    \/ Read /\ UNCHANGED sketchVars
    \/ PowerLoss /\ UNCHANGED sketchVars

Spec == Init /\ [][Next]_vars

\* ------------------------------------------------- the 512-byte scenario
\* capacity = 512 bytes, marker = 4 bytes, record = 16 bytes, one session
\* without power loss.  The k-th write stores a value that tells odd from
\* even writes apart.
ScenarioWrites == 27    \* write() calls followed in the scenario

ScenarioSettings(n) ==
    IF n % 2 = 0 THEN SettingsMixed(SIZE_OF_SETTINGS_STRUCT)
    ELSE SettingsLow(SIZE_OF_SETTINGS_STRUCT)

InitScenario == InitWith({512}, {16}) /\ budget = NoBudget

WriteScenario == WriteErase(ScenarioSettings(Len(writeAddrs)), ScenarioWrites)

NextScenario ==
    \/ Boot /\ UNCHANGED sketchVars
    \/ WriteScenario /\ UNCHANGED sketchVars
    \/ WriteMarker /\ UNCHANGED sketchVars
    \/ WriteSettings /\ UNCHANGED sketchVars
    \/ Read /\ UNCHANGED sketchVars

SpecScenario == InitScenario /\ [][NextScenario]_vars

\* ================================================================ claims
\* Shorthands over the current state.
Word(address) ==
    Get(EEPROM, address, SIZE_OF_DATA_MARKER, eeprom_sizeInBytes, addressWraps)

Misaligned == (SIZE_OF_SETTINGS_STRUCT % 4) # 0
TooLarge   == SIZE_OF_SETTINGS_STRUCT + 4 > eeprom_sizeInBytes
SlotSize   == SIZE_OF_SETTINGS_STRUCT + SIZE_OF_DATA_MARKER

\* The record fits, so init() scans and write() levels the wear.
Levelling == ~Misaligned /\ ~TooLarge

\* The marker-aligned addresses that hold a live data marker.
LiveMarkers ==
    {a \in 0..(eeprom_sizeInBytes - 1) :
        a % SIZE_OF_DATA_MARKER = 0 /\ Word(a) = DATA_MARKER}

\* C1: on an initialised, non-blocked store whose record and marker fit the
\* capacity, a read() directly after a completed write(S) returns the record
\* size and fills *p with S.
C1_RoundTrip ==
    (pc = "idle" /\ lastOps = <<"write", "read">> /\ Levelling)
        => (ret = SIZE_OF_SETTINGS_STRUCT /\ p = lastWritten)

\* C2: after a completed write() no marker-aligned address other than the
\* cursor holds the live data marker.
C2_SingleLiveMarker ==
    (pc = "idle" /\ Levelling /\ Len(writeAddrs) > 0)
        => LiveMarkers \subseteq {eeprom_currentAddress}

\* C3: power lost between eraseMarkerByte() and the put of the new marker:
\* after the next init() the first read() returns -1.
C3_CrashAfterErase ==
    (lastOps = <<"init", "read">> /\ crashPoint = "erased") => ret = NotFound

\* C4: power lost while no write() was in progress, after at least one
\* completed write(): init() and then read() return the last written Settings.
C4_Durability ==
    (lastOps = <<"init", "read">> /\ crashPoint = "idle" /\ Levelling
        /\ lastWritten # <<>>)
        => (ret = SIZE_OF_SETTINGS_STRUCT /\ p = lastWritten)

\* C5: 512-byte capacity, 16-byte record, first use: the first write lands at
\* 0, the second at 20, and the 26th is back at 0 with its record in place of
\* the first one.
C5_Scenario ==
    (firstUse /\ pc = "idle") =>
        /\ Len(writeAddrs) >= 1 => writeAddrs[1] = 0
        /\ Len(writeAddrs) >= 2 => writeAddrs[2] = 20
        /\ Len(writeAddrs) = 26 =>
              /\ eeprom_currentAddress = 0
              /\ writeAddrs[26] = 0
              /\ ReadRecord(EEPROM, 0, eeprom_sizeInBytes,
                            SIZE_OF_SETTINGS_STRUCT, addressWraps) = lastWritten

\* The slots write() uses before it returns to address 0: ceil(size / slot).
Slots == (eeprom_sizeInBytes + SlotSize - 1) \div SlotSize

\* C6: from first use, write k lands at (k-1) * (marker + record) for
\* k <= ceil(C/R), and write ceil(C/R)+1 is the one that returns to address 0.
C6_WearLevelling ==
    firstUse =>
        \A k \in 1..Len(writeAddrs) :
            /\ k <= Slots => writeAddrs[k] = (k - 1) * SlotSize
            /\ k = Slots + 1 => writeAddrs[k] = 0

C6_Witness ==
    firstUse /\ pc = "idle" /\ Slots >= 2 /\ Len(writeAddrs) = Slots + 1

\* C7: after the first-use path of init() the cursor is 0 and address 0 holds
\* the EMPTY_MARKER, a read() returns -1 and leaves *p alone, and the first
\* write() puts marker and record at address 0 without moving the cursor.
C7_FirstUse ==
    /\ (firstUse /\ pc = "idle" /\ writeAddrs = <<>>) =>
          /\ eeprom_currentAddress = 0
          /\ Word(0) = EMPTY_MARKER
          /\ lastOps[2] = "read" =>
                (ret = NotFound /\ p = DefaultSettings(SIZE_OF_SETTINGS_STRUCT))
    /\ (firstUse /\ pc = "idle" /\ Len(writeAddrs) = 1) =>
          /\ eeprom_currentAddress = 0
          /\ writeAddrs[1] = 0
          /\ Word(0) = DATA_MARKER
          /\ Get(EEPROM, SIZE_OF_DATA_MARKER, SIZE_OF_SETTINGS_STRUCT,
                 eeprom_sizeInBytes, addressWraps) = lastWritten

C7_Witness ==
    /\ firstUse /\ pc = "idle" /\ Len(writeAddrs) = 1
    /\ lastOps = <<"read", "write">>
    /\ Word(0) = DATA_MARKER

\* C8 as first stated: after a read(), a record was returned exactly if the
\* word at the cursor is the live data marker.
C8_ReadIffMarker ==
    (pc = "idle" /\ lastOps[2] = "read") =>
        ((ret # NotFound) <=> (Word(eeprom_currentAddress) = DATA_MARKER))

\* C8, amended: read() returns the record behind the cursor exactly if the
\* store is not blocked, cursor + record size does not exceed the capacity and
\* the word at the cursor is the live data marker; otherwise it returns -1
\* and leaves *p as it was.  It never changes the memory or the cursor.
ReadsRecord ==
    /\ ~blocked
    /\ eeprom_currentAddress + SIZE_OF_SETTINGS_STRUCT <= eeprom_sizeInBytes
    /\ Word(eeprom_currentAddress) = DATA_MARKER

C8_ReadIffMarkerInRange ==
    [][Read =>
        /\ EEPROM' = EEPROM
        /\ eeprom_currentAddress' = eeprom_currentAddress
        /\ IF ReadsRecord
           THEN /\ ret' = SIZE_OF_SETTINGS_STRUCT
                /\ p' = Get(EEPROM, eeprom_currentAddress + SIZE_OF_DATA_MARKER,
                            SIZE_OF_SETTINGS_STRUCT, eeprom_sizeInBytes,
                            addressWraps)
           ELSE /\ ret' = NotFound
                /\ p' = p]_vars

C8_Witness ==
    /\ pc = "idle" /\ lastOps[2] = "read" /\ ~blocked
    /\ Word(eeprom_currentAddress) = DATA_MARKER
    /\ ret = NotFound

\* C9: a record size that is no multiple of the marker size blocks the store
\* at init(); a blocked store stays blocked while the power is on, and each
\* read() and write() returns -1, returns to the caller, and changes neither
\* the memory nor the cursor.
C9_Blocked ==
    /\ []((Misaligned /\ pc # "off") => blocked)
    /\ [][(blocked /\ pc = "idle") =>
            /\ EEPROM' = EEPROM
            /\ \/ pc' = "off"
               \/ /\ pc' = "idle"
                  /\ blocked'
                  /\ eeprom_currentAddress' = eeprom_currentAddress
                  /\ lastOps'[2] \in {"read", "write"}
                  /\ ret' = NotFound]_vars

C9_Witness ==
    blocked /\ pc = "idle" /\ lastOps = <<"write", "read">> /\ ret = NotFound

U32(n) == <<n \div UINT16, n % UINT16>>

U32Add(a, b) ==
    <<(a[1] + b[1] + ((a[2] + b[2]) \div UINT16)) % UINT16, (a[2] + b[2]) % UINT16>>

U32Sub(a, b) ==
    <<(a[1] - b[1] - (IF a[2] < b[2] THEN 1 ELSE 0)) % UINT16,
      (a[2] - b[2]) % UINT16>>

\* a > b on unsigned longs.
U32Gt(a, b) == a[1] > b[1] \/ (a[1] = b[1] /\ a[2] > b[2])

\* a / n for a small divisor n > 1; the quotient is below 2^31.
U32Div(a, n) == (a[1] \div n) * UINT16 + (((a[1] % n) * UINT16 + a[2]) \div n)

\* millis() and micros() at the time now: micros() counts 1000 per
\* millisecond and wraps modulo 2^32 on its own.
Millis(t) == t
Micros(t) ==
    <<(t[1] * 1000 + ((t[2] * 1000) \div UINT16)) % UINT16, (t[2] * 1000) % UINT16>>

\* ------------------------------------------------------------- settings
DECELERATOR     == 0
SHORT_DELAY     == 1
DELAY           == 2
ECHO1           == 3
ECHO2           == 4
ECHO3           == 5
CHORUS          == 6
FAST_CHORUS     == 7
REVERB          == 8
WOW_NOT_FLUTTER == 9
TELEGRAPH       == 10
TELEVERB        == 11
PSYCHO          == 12
DECELERATOR_UPDATE_TIME_MIN == 10
NR_OF_CYCLES == 3
EXT_CLOCK_TIMEOUT == 2000000
DELAY_TIME_BEFORE_WRITING_TO_EEPROM_IN_MS == 10000

\* Offsets of the fields in the object representation (see FieldMin).
WetDryOffset == NR_OF_EFFECTS + 1
EffectOffset == NR_OF_EFFECTS + 2

\* settings.effect is an int8_t.
Effect(s) == IF s[EffectOffset] >= 128 THEN s[EffectOffset] - 256 ELSE s[EffectOffset]
DelayTime(s, e) == s[e + 1]
BaseFactorIndex(s, e) == s[EffectOffset + 1 + e]
IsWetAndDrySelected(s) == s[WetDryOffset] # 0

SetEffect(s, e) == [s EXCEPT ![EffectOffset] = e % 256]
SetDelayTimeOf(s, e, d) == [s EXCEPT ![e + 1] = d]
SetBaseFactorIndex(s, e, i) == [s EXCEPT ![EffectOffset + 1 + e] = i]

delayTimeMax(e) == FieldMax(e + 1)

isChorusOrReverb(s) == Effect(s) \in {CHORUS, FAST_CHORUS, REVERB}

\* ------------------------------------------------ the tempo-derived value
\* baseFactor[] in 96ths: T/32, 1/32, T/16, 1/16, T/8, S/16, 1/8, T/4, S/8,
\* 1/4, T/2, S/4, 1/2, T, S/2, 1 with T = 2/3 and S = 3/2.
baseFactor96 == <<2, 3, 4, 6, 8, 9, 12, 16, 18, 24, 32, 36, 48, 64, 72, 96>>

\* byte(236.88 * pow(0.9978, f * cycleTime / 1000)) is at least v exactly
\* when 96 * f * cycleTime <= PwmLimit[v] (cycleTime in microseconds):
\* PwmLimit[v] = floor(96000 * ln(236.88 / v) / -ln(0.9978)), v = 1..236.
PwmLimit == <<
    238321621, 208108482, 190434929, 177895343, 168168885, 160221790,
    153502616, 147682204, 142548236, 137955746, 133801332, 130008650,
    126519721, 123289477, 120282192, 117469065, 114826538, 112335097,
    109978396, 107742606, 105615924, 103588193, 101650615, 99795511,
    98016148, 96306582, 94661544, 93076338, 91546766, 90069053,
    88639799, 87255926, 85914640, 84613399, 83349880, 82121958,
    80927682, 79765257, 78633029, 77529467, 76453157, 75402785,
    74377129, 73375054, 72395500, 71437475, 70500055, 69582372,
    68683612, 67803009, 66939845, 66093443, 65263164, 64448404,
    63648596, 62863199, 62091704, 61333626, 60588508, 59855914,
    59135429, 58426660, 57729231, 57042786, 56366985, 55701501,
    55046025, 54400259, 53763922, 53136741, 52518456, 51908819,
    51307591, 50714543, 50129456, 49552118, 48982328, 48419890,
    47864616, 47316328, 46774851, 46240018, 45711668, 45189646,
    44673801, 44163990, 43660073, 43161915, 42669386, 42182360,
    41700716, 41224336, 40753106, 40286916, 39825660, 39369233,
    38917536, 38470472, 38027947, 37589870, 37156151, 36726706,
    36301451, 35880304, 35463187, 35050024, 34640741, 34235265,
    33833527, 33435457, 33040989, 32650060, 32262605, 31878565,
    31497878, 31120487, 30746336, 30375369, 30007533, 29642775,
    29281044, 28922290, 28566465, 28213521, 27863411, 27516092,
    27171518, 26829647, 26490437, 26153845, 25819834, 25488362,
    25159391, 24832885, 24508807, 24187120, 23867790, 23550783,
    23236064, 22923602, 22613363, 22305317, 21999432, 21695680,
    21394029, 21094451, 20796919, 20501404, 20207878, 19916316,
    19626692, 19338979, 19053153, 18769188, 18487062, 18206750,
    17928230, 17651477, 17376471, 17103189, 16831610, 16561712,
    16293475, 16026879, 15761903, 15498529, 15236736, 14976506,
    14717821, 14460662, 14205011, 13950851, 13698164, 13446934,
    13197143, 12948776, 12701816, 12456247, 12212054, 11969221,
    11727734, 11487577, 11248736, 11011197, 10774945, 10539967,
    10306249, 10073777, 9842539, 9612521, 9383710, 9156094,
    8929660, 8704397, 8480292, 8257333, 8035509, 7814808,
    7595219, 7376731, 7159332, 6943012, 6727761, 6513567,
    6300421, 6088311, 5877229, 5667165, 5458107, 5250048,
    5042977, 4836885, 4631763, 4427602, 4224393, 4022126,
    3820794, 3620387, 3420898, 3222318, 3024638, 2827850,
    2631947, 2436921, 2242763, 2049466, 1857023, 1665425,
    1474666, 1284739, 1095635, 907348, 719871, 533197,
    347319, 162230>>

\* The byte the expression yields for a ratio index inside the table.
PwmByte(index, cycle) ==
    Cardinality({v \in 1..Len(PwmLimit) :
                    cycle <= PwmLimit[v] \div baseFactor96[index + 1]})

\* A ratio index past the end of baseFactor[] reads whatever float lies
\* behind the table; the byte that results is indeterminate.
IndeterminateBytes == {0, 255}

PwmBytes(index, cycle) ==
    IF index < NR_OF_MULT_FACTORS THEN {PwmByte(index, cycle)}
    ELSE IndeterminateBytes

\* --------------------------------------------------------------- rotate()
\* settings.effect-- with wrap around (DIR_CCW, select mode).
EffectDown_NoWrap(e) == IF e > 0 THEN e - 1 ELSE e

EffectDown(e) == IF e > 0 THEN e - 1 ELSE NR_OF_EFFECTS - 1

\* settings.effect++ with wrap around (DIR_CW, select mode).
EffectUp(e) == IF e + 1 > NR_OF_EFFECTS - 1 THEN 0 ELSE e + 1

\* baseFactorIndex -= countDirection / += countDirection, on bytes.
IndexDown(i, cd) == IF i > 0 THEN (i - cd) % 256 ELSE 0

IndexUp(i, cd) ==
    IF (i + cd) % 256 > NR_OF_MULT_FACTORS - 1 THEN NR_OF_MULT_FACTORS - 1
    ELSE (i + cd) % 256

\* The lower test of the DIR_CCW branch, the upper test of the DIR_CW branch.
ClampLow(d) == IF d < DELAY_TIME_MIN THEN DELAY_TIME_MIN ELSE d

ClampHigh(d, e) == IF d > delayTimeMax(e) THEN delayTimeMax(e) ELSE d

\* The delay time is taken from the ratio table and the cycle time.
IsSymbolic(s, fine, symbolic) == ~fine /\ symbolic /\ ~isChorusOrReverb(s)

\* A DIR_CCW branch whose effect selection also turns the delay time of the
\* effect it leaves down by one.
RotateCCW_Leaky(s, select, fine, symbolic, cd, v) ==
    IF select
    THEN SetEffect(SetDelayTimeOf(s, Effect(s), (DelayTime(s, Effect(s)) - 1) % 256),
                   EffectDown(Effect(s)))
    ELSE LET e  == Effect(s)
             s1 == SetBaseFactorIndex(s, e, IndexDown(BaseFactorIndex(s, e), cd))
             d  == IF IsSymbolic(s, fine, symbolic) THEN v
                   ELSE (DelayTime(s, e) - cd) % 256
         IN  SetDelayTimeOf(s1, e, ClampLow(d))

\* rotate() on DIR_CCW; v is the byte the tempo expression yields.
RotateCCW(s, select, fine, symbolic, cd, v) ==
    IF select THEN SetEffect(s, EffectDown(Effect(s)))
    ELSE LET e  == Effect(s)
             s1 == SetBaseFactorIndex(s, e, IndexDown(BaseFactorIndex(s, e), cd))
             d  == IF IsSymbolic(s, fine, symbolic) THEN v
                   ELSE (DelayTime(s, e) - cd) % 256
         IN  SetDelayTimeOf(s1, e, ClampLow(d))

\* rotate() on DIR_CW.
RotateCW(s, select, fine, symbolic, cd, v) ==
    IF select THEN SetEffect(s, EffectUp(Effect(s)))
    ELSE LET e  == Effect(s)
             s1 == SetBaseFactorIndex(s, e, IndexUp(BaseFactorIndex(s, e), cd))
             d  == IF IsSymbolic(s, fine, symbolic) THEN v
                   ELSE (DelayTime(s, e) + cd) % 256
         IN  SetDelayTimeOf(s1, e, ClampHigh(d, e))

\* The ratio index rotate() uses for the tempo expression.
RotateIndex(s, dir, cd) ==
    IF dir = "DIR_CCW" THEN IndexDown(BaseFactorIndex(s, Effect(s)), cd)
    ELSE IndexUp(BaseFactorIndex(s, Effect(s)), cd)

\* Everything of the store but the object p.
storeVars == <<config, EEPROM, eeprom_currentAddress, eeprom_dataItem, blocked,
               pc, settings, ret, serialMsg, lastOps, lastWritten, writeAddrs,
               firstUse, crashPoint>>

\* The interrupt service routines are attached and can run.
Running == at \in {"loop", "switch", "case", "persist", "copy", "timeout"}

\* Where the handler of an event is called from.  rotate() is attached to
\* the two encoder interrupts only.  The button callbacks are called by
\* button.tick(), which runs in loop() and in the interrupt service routines
\* buttonTick() and extClock().
ButtonCallbacks == {"click", "double click", "long press"}

TickCallers_LoopOnly == {FALSE}

TickCallers == {FALSE, TRUE}

CallerIsIsr(name) == IF name \in ButtonCallbacks THEN TickCallers ELSE {TRUE}

\* The handlers that draw on the display: setDelayTime() calls displayText()
\* and display.clearDisplay().
UpdatesDisplay == {"click"}

\* An event handler ran: one event less to explore.
Event(name) ==
    /\ budget.events > 0
    /\ budget' = [budget EXCEPT !.events = @ - 1]
    /\ lastEvent' = name
    /\ isr' \in CallerIsIsr(name)
    /\ polls' = 0

Rotate(dir) ==
    /\ Running
    /\ Event(dir)
    /\ \E v \in PwmBytes(RotateIndex(p, dir, countDirection), cycleTime) :
          p' = IF dir = "DIR_CCW"
               THEN RotateCCW(p, inSelectMode, fineTuneDelayTime,
                              useSymbolicTimeString, countDirection, v)
               ELSE RotateCW(p, inSelectMode, fineTuneDelayTime,
                             useSymbolicTimeString, countDirection, v)
    /\ UNCHANGED <<storeVars, at, now, inSelectMode, fineTuneDelayTime,
                   countDirection, loopb, onlyOnce, useSymbolicTimeString,
                   cycleTime, irqCounter, sumTime, oldTime, thisTime, oldEffect,
                   oldDelayTime, writeToEeprom, writeTimer, sinceMark, marks, tmp>>

MaxSketchWrites == 3     \* deferred writes followed in one session

\* ------------------------------------------------------- button callbacks
\* A single click that switches fine tuning as well.
SetDelayTime_AndFineTune ==
    /\ Running
    /\ Event("click")
    /\ inSelectMode' = ~inSelectMode
    /\ fineTuneDelayTime' = ~fineTuneDelayTime
    /\ loopb' = TRUE
    /\ UNCHANGED <<eepromVars, at, now, countDirection,
                   onlyOnce, useSymbolicTimeString, cycleTime, irqCounter,
                   sumTime, oldTime, thisTime, oldEffect, oldDelayTime,
                   writeToEeprom, writeTimer, sinceMark, marks, tmp>>

\* setDelayTime(): single click.
SetDelayTime ==
    /\ Running
    /\ Event("click")
    /\ inSelectMode' = ~inSelectMode
    /\ loopb' = TRUE
    /\ UNCHANGED <<eepromVars, at, now, fineTuneDelayTime, countDirection,
                   onlyOnce, useSymbolicTimeString, cycleTime, irqCounter,
                   sumTime, oldTime, thisTime, oldEffect, oldDelayTime,
                   writeToEeprom, writeTimer, sinceMark, marks, tmp>>

\* A double click that also writes the settings to the store at once.
FinetuneDelayTime_Writes ==
    /\ Running
    /\ Event("double click")
    /\ fineTuneDelayTime' = ~fineTuneDelayTime
    /\ IF pc = "idle" /\ ~blocked /\ Len(writeAddrs) < MaxSketchWrites
       THEN WriteErase(p, MaxSketchWrites)
       ELSE UNCHANGED eepromVars
    /\ UNCHANGED <<at, now, inSelectMode, countDirection, loopb,
                   onlyOnce, useSymbolicTimeString, cycleTime, irqCounter,
                   sumTime, oldTime, thisTime, oldEffect, oldDelayTime,
                   writeToEeprom, writeTimer, sinceMark, marks, tmp>>

\* finetuneDelayTime(): double click.
FinetuneDelayTime ==
    /\ Running
    /\ Event("double click")
    /\ fineTuneDelayTime' = ~fineTuneDelayTime
    /\ UNCHANGED <<eepromVars, at, now, inSelectMode, countDirection, loopb,
                   onlyOnce, useSymbolicTimeString, cycleTime, irqCounter,
                   sumTime, oldTime, thisTime, oldEffect, oldDelayTime,
                   writeToEeprom, writeTimer, sinceMark, marks, tmp>>

\* A long press that leaves the flag alone.
ToggleWetAndDry_Never(s) == s

\* The cases of wetDryToggle() that toggle the flag.
WetAndDryEffects_All == 0..(NR_OF_EFFECTS - 1)

WetAndDryEffects == {SHORT_DELAY, DELAY, ECHO1, ECHO2, ECHO3, REVERB, PSYCHO}

ToggleWetAndDry(s) ==
    IF Effect(s) \in WetAndDryEffects
    THEN [s EXCEPT ![WetDryOffset] = IF IsWetAndDrySelected(s) THEN 0 ELSE 1]
    ELSE s

\* wetDryToggle(): long press.
WetDryToggle ==
    /\ Running
    /\ Event("long press")
    /\ p' = ToggleWetAndDry(p)
    /\ UNCHANGED <<storeVars, at, now, inSelectMode, fineTuneDelayTime,
                   countDirection, loopb, onlyOnce, useSymbolicTimeString,
                   cycleTime, irqCounter, sumTime, oldTime, thisTime, oldEffect,
                   oldDelayTime, writeToEeprom, writeTimer, sinceMark, marks, tmp>>

\* ------------------------------------------------------------- extClock()
\* The two tests of extClock() on the byte tmp.
ClockClamp(v, e) ==
    IF (IF v > delayTimeMax(e) THEN delayTimeMax(e) ELSE v) < DELAY_TIME_MIN
    THEN DELAY_TIME_MIN
    ELSE IF v > delayTimeMax(e) THEN delayTimeMax(e) ELSE v

\* The accumulator is full: irqCounter > NR_OF_CYCLES.
WindowFull(irq) == irq > NR_OF_CYCLES

\* One rising edge on CV1, some time after the edge before.
ExtClock ==
    /\ Running
    /\ Micros(now) # oldTime
    /\ budget.pulses > 0
    /\ budget' = [budget EXCEPT !.pulses = @ - 1]
    /\ lastEvent' = "clock"
    /\ isr' = TRUE
    /\ polls' = 0
    /\ thisTime' = Micros(now)
    /\ oldTime' = Micros(now)
    /\ IF WindowFull((irqCounter + 1) % 256)
       THEN /\ cycleTime' = U32Div(U32Add(sumTime, U32Sub(Micros(now), oldTime)),
                                   (irqCounter + 1) % 256)
            /\ \E v \in PwmBytes(BaseFactorIndex(p, Effect(p)), cycleTime') :
                  p' = IF fineTuneDelayTime THEN p
                       ELSE SetDelayTimeOf(p, Effect(p), ClockClamp(v, Effect(p)))
            /\ useSymbolicTimeString' = TRUE
            /\ irqCounter' = 0
            /\ sumTime' = U32Zero
       ELSE /\ irqCounter' = (irqCounter + 1) % 256
            /\ sumTime' = U32Add(sumTime, U32Sub(Micros(now), oldTime))
            /\ UNCHANGED <<cycleTime, p, useSymbolicTimeString>>
    /\ UNCHANGED <<storeVars, at, now, inSelectMode, fineTuneDelayTime,
                   countDirection, loopb, onlyOnce, oldEffect, oldDelayTime,
                   writeToEeprom, writeTimer, sinceMark, marks, tmp>>

\* The change test of loop(): what makes it call updateEepromTimer().
Changed(s, effect, delays) ==
    Effect(s) # effect \/ DelayTime(s, Effect(s)) # delays[Effect(s)]

\* ------------------------------------------------------------------ time
LoopMs   == 100      \* longest time one iteration of loop() is given
SinceCap == 10001    \* sinceMark is followed up to this value

\* The deferred write is due at time t.
Due(t) == writeToEeprom /\ U32Gt(Millis(t), writeTimer)

\* Between now and now + d the counter passes 2^32 - 1.
Wraps(t, d) == U32Gt(t, U32Add(t, d))

\* Time passes.  Within a step longer than LoopMs the iterations of loop()
\* that are skipped would have found nothing to do.
Tick(d) ==
    /\ Running
    /\ at \notin {"switch", "case", "copy"}
    /\ pc = "idle"
    /\ budget.ticks > 0
    /\ budget' = [budget EXCEPT !.ticks = @ - 1]
    /\ \/ d[1] = 0 /\ d[2] <= LoopMs
       \/ /\ polls > 0
          /\ ~Changed(p, oldEffect, oldDelayTime)
          /\ ~Due(now)
          /\ ~Due(U32Sub(U32Add(now, d), U32(1)))
          /\ ~(writeToEeprom /\ Wraps(now, d))
    /\ now' = U32Add(now, d)
    /\ sinceMark' = IF d[1] > 0 THEN SinceCap ELSE Min(sinceMark + d[2], SinceCap)
    /\ UNCHANGED <<eepromVars, at, inSelectMode, fineTuneDelayTime, countDirection,
                   loopb, onlyOnce, useSymbolicTimeString, cycleTime, irqCounter,
                   sumTime, oldTime, thisTime, oldEffect, oldDelayTime,
                   writeToEeprom, writeTimer, marks, polls, lastEvent, isr, tmp>>

\* ------------------------------------------------------------------ loop()
\* Effects whose case sets countDirection = LEFT, and whose case sets loopb.
LeftEffects == {REVERB, WOW_NOT_FLUTTER, TELEGRAPH, TELEVERB, PSYCHO}

LoopbEffects == {DECELERATOR, CHORUS, FAST_CHORUS, WOW_NOT_FLUTTER, TELEGRAPH,
                 TELEVERB, PSYCHO}

\* case(DECELERATOR): the update time is kept within its own limits.
DeceleratorClamp(s) ==
    IF Effect(s) # DECELERATOR THEN s
    ELSE IF DelayTime(s, DECELERATOR) > DECELERATOR_UPDATE_TIME_MAX
    THEN SetDelayTimeOf(s, DECELERATOR, DECELERATOR_UPDATE_TIME_MAX)
    ELSE IF DelayTime(s, DECELERATOR) < DECELERATOR_UPDATE_TIME_MIN
    THEN SetDelayTimeOf(s, DECELERATOR, DECELERATOR_UPDATE_TIME_MIN)
    ELSE s

\* updateEepromTimer(): writeTimer = millis() + the delay.
WriteTimerAt(t) == U32Add(Millis(t), U32(DELAY_TIME_BEFORE_WRITING_TO_EEPROM_IN_MS))

\* loop() up to the call of writeSettingsToEeprom().
Loop1 ==
    /\ at = "loop"
    /\ pc = "idle"
    /\ at' = "persist"
    /\ IF Changed(p, oldEffect, oldDelayTime)
       THEN /\ writeToEeprom' = TRUE
            /\ writeTimer' = WriteTimerAt(now)
            /\ marks' = Append(marks, [gap |-> IF marks = <<>> THEN SinceCap
                                                 ELSE sinceMark,
                                        polled |-> FALSE])
            /\ sinceMark' = 0
       ELSE UNCHANGED <<writeToEeprom, writeTimer, marks, sinceMark>>
    /\ IF Changed(p, oldEffect, oldDelayTime) \/ loopb \/ onlyOnce
       THEN /\ onlyOnce' = FALSE
            /\ countDirection' = IF Effect(p) \in LeftEffects THEN LEFT ELSE RIGHT
            /\ loopb' = (Effect(p) \in LoopbEffects)
            /\ oldEffect' = Effect(p)
            /\ oldDelayTime' =
                  [oldDelayTime EXCEPT ![Effect(p)] = DelayTime(p, Effect(p))]
            /\ p' = DeceleratorClamp(p)
       ELSE UNCHANGED <<onlyOnce, countDirection, loopb, oldEffect, oldDelayTime, p>>
    /\ UNCHANGED <<storeVars, now, inSelectMode, fineTuneDelayTime,
                   useSymbolicTimeString, cycleTime, irqCounter, sumTime,
                   oldTime, thisTime, polls, lastEvent, isr, budget, tmp>>

\* loop(), the first of its two change tests: updateEepromTimer() when the
\* effect or its delay time differs from what the pass before saw.
LoopMark ==
    /\ at = "loop"
    /\ pc = "idle"
    /\ at' = "switch"
    /\ IF Changed(p, oldEffect, oldDelayTime)
       THEN /\ writeToEeprom' = TRUE
            /\ writeTimer' = WriteTimerAt(now)
            /\ marks' = Append(marks, [gap |-> IF marks = <<>> THEN SinceCap
                                                 ELSE sinceMark,
                                        polled |-> FALSE])
            /\ sinceMark' = 0
       ELSE UNCHANGED <<writeToEeprom, writeTimer, marks, sinceMark>>
    /\ UNCHANGED <<eepromVars, now, inSelectMode, fineTuneDelayTime,
                   countDirection, loopb, onlyOnce, oldEffect, oldDelayTime,
                   useSymbolicTimeString, cycleTime, irqCounter, sumTime,
                   oldTime, thisTime, polls, lastEvent, isr, budget, tmp>>

\* loop(), the second change test and the effect switch behind it, which
\* takes the present effect and delay time as seen.
LoopSwitch ==
    /\ at = "switch"
    /\ at' = "persist"
    /\ IF Changed(p, oldEffect, oldDelayTime) \/ loopb \/ onlyOnce
       THEN /\ onlyOnce' = FALSE
            /\ countDirection' = IF Effect(p) \in LeftEffects THEN LEFT ELSE RIGHT
            /\ loopb' = (Effect(p) \in LoopbEffects)
            /\ oldEffect' = Effect(p)
            /\ oldDelayTime' =
                  [oldDelayTime EXCEPT ![Effect(p)] = DelayTime(p, Effect(p))]
            /\ p' = DeceleratorClamp(p)
       ELSE UNCHANGED <<onlyOnce, countDirection, loopb, oldEffect, oldDelayTime, p>>
    /\ UNCHANGED <<storeVars, now, inSelectMode, fineTuneDelayTime,
                   writeToEeprom, writeTimer, marks, sinceMark,
                   useSymbolicTimeString, cycleTime, irqCounter, sumTime,
                   oldTime, thisTime, polls, lastEvent, isr, budget, tmp>>

\* A loop() that never finds the clock lost.
ClockLost_Never(t) == FALSE

\* The clock pulses stopped: micros() - thisTime > EXT_CLOCK_TIMEOUT.
ClockLost(t) == U32Gt(U32Sub(Micros(t), thisTime), U32(EXT_CLOCK_TIMEOUT))

\* A loop() that puts the delay time of the active effect at its maximum
\* when it finds the clock lost.
Loop2_ResetsDelay ==
    /\ at = "persist"
    /\ at' = "loop"
    /\ IF Due(now)
       THEN /\ writeToEeprom' = FALSE
            /\ WriteErase(p, MaxSketchWrites)
       ELSE /\ p' = IF useSymbolicTimeString /\ ClockLost(now)
                    THEN SetDelayTimeOf(p, Effect(p), delayTimeMax(Effect(p)))
                    ELSE p
            /\ UNCHANGED <<writeToEeprom, storeVars>>
    /\ useSymbolicTimeString' = (useSymbolicTimeString /\ ~ClockLost(now))
    /\ polls' = Min(polls + 1, 2)
    /\ marks' = IF marks # <<>> /\ sinceMark > DELAY_TIME_BEFORE_WRITING_TO_EEPROM_IN_MS
                THEN [marks EXCEPT ![Len(marks)].polled = TRUE]
                ELSE marks
    /\ UNCHANGED <<now, inSelectMode, fineTuneDelayTime, countDirection, loopb,
                   onlyOnce, cycleTime, irqCounter, sumTime, oldTime, thisTime,
                   oldEffect, oldDelayTime, writeTimer, sinceMark,
                   lastEvent, isr, budget, tmp>>

\* loop() from writeSettingsToEeprom() on; write() itself goes on with
\* WriteMarker and WriteSettings.
Loop2 ==
    /\ at = "persist"
    /\ at' = "loop"
    /\ IF Due(now)
       THEN /\ writeToEeprom' = FALSE
            /\ WriteErase(p, MaxSketchWrites)
       ELSE UNCHANGED <<writeToEeprom, eepromVars>>
    /\ useSymbolicTimeString' = (useSymbolicTimeString /\ ~ClockLost(now))
    /\ polls' = Min(polls + 1, 2)
    /\ marks' = IF marks # <<>> /\ sinceMark > DELAY_TIME_BEFORE_WRITING_TO_EEPROM_IN_MS
                THEN [marks EXCEPT ![Len(marks)].polled = TRUE]
                ELSE marks
    /\ UNCHANGED <<now, inSelectMode, fineTuneDelayTime, countDirection, loopb,
                   onlyOnce, cycleTime, irqCounter, sumTime, oldTime, thisTime,
                   oldEffect, oldDelayTime, writeTimer, sinceMark,
                   lastEvent, isr, budget, tmp>>

\* ----------------------------------------------------------------- setup()
\* The delay() calls of showSplashScreen() and the wait for a stable cycle
\* time: millis() when loop() starts, and when oldTime is taken.
SplashMs == 600 + 600 + 600 + 200 + 600 + 1200
SetupMs  == SplashMs + 6000

\* eeprom = Eeprom(EEPROM.length())
SetupEeprom ==
    /\ at = "off"
    /\ Boot
    /\ at' = "setup"
    /\ UNCHANGED <<now, inSelectMode, fineTuneDelayTime, countDirection, loopb,
                   onlyOnce, useSymbolicTimeString, cycleTime, irqCounter,
                   sumTime, oldTime, thisTime, oldEffect, oldDelayTime,
                   writeToEeprom, writeTimer, sinceMark, marks, polls,
                   lastEvent, isr, budget, tmp>>

\* eeprom.read(&settings) and the rest of setup().
SetupRest ==
    /\ at = "setup"
    /\ Read
    /\ at' = "loop"
    /\ now' = U32(SetupMs)
    /\ oldTime' = Micros(U32(SplashMs))
    /\ onlyOnce' = TRUE
    /\ oldEffect' = Effect(p')
    /\ oldDelayTime' = [e \in 0..(NR_OF_EFFECTS - 1) |-> DelayTime(p', e)]
    /\ UNCHANGED <<inSelectMode, fineTuneDelayTime, countDirection, loopb,
                   useSymbolicTimeString, cycleTime, irqCounter, sumTime,
                   thisTime, writeToEeprom, writeTimer, sinceMark, marks, polls,
                   lastEvent, isr, budget, tmp>>

\* ------------------------------------------------------------ the device
SizeOfSettings == 2 * NR_OF_EFFECTS + 2
EepromSlots  == 2        \* EEPROM.length() explored, in records with marker
EepromLength == EepromSlots * (SizeOfSettings + SIZE_OF_DATA_MARKER)

\* Every field at its maximum.
SettingsHigh(size) == [i \in 1..size |-> FieldMax(i)]

\* An EEPROM that holds the record r at address 0, as a first session
\* leaves it; <<>> stands for an EEPROM as delivered.
StoredAtZero(r) ==
    IF r = <<>> THEN [c \in 0..(EepromLength - 1) |-> ErasedByte]
    ELSE Put(Put([c \in 0..(EepromLength - 1) |-> ErasedByte],
                 0, DATA_MARKER, EepromLength, FALSE),
             SIZE_OF_DATA_MARKER, r, EepromLength, FALSE)

\* The device with power off, its EEPROM holding one of the records.
InitSketch(records, b) ==
    /\ SIZE_OF_SETTINGS_STRUCT = SizeOfSettings
    /\ eeprom_sizeInBytes = EepromLength
    /\ addressWraps = FALSE
    /\ \E r \in records : EEPROM = StoredAtZero(r)
    /\ pc = "off"
    /\ RamOff
    /\ lastOps = <<"off", "off">>
    /\ lastWritten = <<>>
    /\ crashPoint = "idle"
    /\ SketchOff
    /\ budget = b

\* ----------------------------------------- encoder, button and scheduler
MaxEvents == 2           \* encoder and button events followed
MaxTicks  == 4           \* time steps followed

\* 2^32 minus the write delay and half a loop(): a dirty mark at this time
\* sets a writeTimer that falls within one loop() of the wrap of millis().
NearWrap ==
    U32Sub(U32Zero, U32(DELAY_TIME_BEFORE_WRITING_TO_EEPROM_IN_MS + (LoopMs \div 2)))

\* Time steps: one loop(), the write delay, and the idle time up to NearWrap.
SketchTicks ==
    {U32(LoopMs), U32(DELAY_TIME_BEFORE_WRITING_TO_EEPROM_IN_MS),
     U32Sub(NearWrap, U32(SetupMs))}

SchedRecords == {SetEffect(SettingsMixed(SizeOfSettings), SHORT_DELAY)}

InitSched ==
    InitSketch(SchedRecords, [events |-> MaxEvents, ticks |-> MaxTicks, pulses |-> 0])

TickSketch == \E d \in SketchTicks : Tick(d)

RotateAny == \E dir \in {"DIR_CCW", "DIR_CW"} : Rotate(dir)

NextSketch ==
    \/ SetupEeprom
    \/ SetupRest
    \/ RotateAny
    \/ SetDelayTime
    \/ FinetuneDelayTime
    \/ WetDryToggle
    \/ TickSketch
    \/ Loop1
    \/ Loop2
    \/ WriteMarker /\ UNCHANGED sketchVars
    \/ WriteSettings /\ UNCHANGED sketchVars

SpecSched == InitSched /\ [][NextSketch]_vars

\* The controller: records with every field at its minimum or at its
\* maximum, for an effect of each kind, and an EEPROM as delivered.
CtlEffects == {DECELERATOR, SHORT_DELAY, PSYCHO}

CtlRecords ==
    {<<>>} \cup {SetEffect(r, e) : r \in {SettingsLow(SizeOfSettings),
                                          SettingsHigh(SizeOfSettings)},
                                  e \in CtlEffects}

MaxCtlEvents == 2        \* encoder and button events followed
MaxCtlTicks  == 2        \* time steps followed

InitCtl ==
    InitSketch(CtlRecords,
               [events |-> MaxCtlEvents, ticks |-> MaxCtlTicks, pulses |-> 0])

SpecCtl == InitCtl /\ [][NextSketch]_vars

\* The external clock: a record for an effect with symbolic timing and one
\* for the Chorus, pulses 500 ms or 2000 ms apart, fine tuning left off.
MaxPulses      == 4      \* clock pulses followed
MaxClockEvents == 2      \* encoder and button events followed
MaxClockTicks  == 3      \* time steps followed

ClockRecords ==
    {SetEffect(SettingsMixed(SizeOfSettings), e) : e \in {SHORT_DELAY, CHORUS}}

ClockTicks ==
    {U32(LoopMs), U32(500), U32(EXT_CLOCK_TIMEOUT \div 1000),
     U32(DELAY_TIME_BEFORE_WRITING_TO_EEPROM_IN_MS)}

InitClock ==
    InitSketch(ClockRecords, [events |-> MaxClockEvents, ticks |-> MaxClockTicks,
                              pulses |-> MaxPulses])

TickClock == \E d \in ClockTicks : Tick(d)

NextClock ==
    \/ SetupEeprom
    \/ SetupRest
    \/ ExtClock
    \/ RotateAny
    \/ SetDelayTime
    \/ TickClock
    \/ Loop1
    \/ Loop2
    \/ WriteMarker /\ UNCHANGED sketchVars
    \/ WriteSettings /\ UNCHANGED sketchVars

SpecClock == InitClock /\ [][NextClock]_vars

\* A record with a field out of range: the one a session that began with
\* the compiled defaults leaves behind (every delay time 0), for the
\* Decelerator and for the Delay.
LoadRecords ==
    {SetEffect(DefaultSettings(SizeOfSettings), e) : e \in {DECELERATOR, DELAY}}

InitLoad ==
    InitSketch(LoadRecords,
               [events |-> MaxCtlEvents, ticks |-> MaxCtlTicks, pulses |-> 0])

SpecLoad == InitLoad /\ [][NextSketch]_vars

\* The interrupt service routines and loop(): every handler, one clock
\* pulse, and time enough for one deferred write.
MaxIsrEvents == 2        \* encoder and button events followed
MaxIsrTicks  == 2        \* time steps followed
MaxIsrPulses == 1        \* clock pulses followed

InitIsr ==
    InitSketch(SchedRecords, [events |-> MaxIsrEvents, ticks |-> MaxIsrTicks,
                              pulses |-> MaxIsrPulses])

NextIsr == NextSketch \/ ExtClock

SpecIsr == InitIsr /\ [][NextIsr]_vars

\* The same, with the interrupt handlers also running between the two
\* change tests of loop().
NextRace ==
    \/ SetupEeprom
    \/ SetupRest
    \/ RotateAny
    \/ SetDelayTime
    \/ FinetuneDelayTime
    \/ WetDryToggle
    \/ ExtClock
    \/ TickSketch
    \/ LoopMark
    \/ LoopSwitch
    \/ Loop2
    \/ WriteMarker /\ UNCHANGED sketchVars
    \/ WriteSettings /\ UNCHANGED sketchVars

SpecRace == InitIsr /\ [][NextRace]_vars

\* The clock stops: a pulse train and the silence after it, with loop()
\* called again and again and a write() that was begun running to its end.
MaxLivePulses == 4       \* clock pulses followed
MaxLiveTicks  == 5       \* time steps followed

LiveTicks ==
    {U32(LoopMs), U32(500), U32((EXT_CLOCK_TIMEOUT \div 1000) + 1),
     U32(DELAY_TIME_BEFORE_WRITING_TO_EEPROM_IN_MS)}

InitLive ==
    InitSketch(SchedRecords, [events |-> 0, ticks |-> MaxLiveTicks,
                              pulses |-> MaxLivePulses])

TickLive == \E d \in LiveTicks : Tick(d)

NextLive ==
    \/ SetupEeprom
    \/ SetupRest
    \/ ExtClock
    \/ TickLive
    \/ Loop1
    \/ Loop2
    \/ WriteMarker /\ UNCHANGED sketchVars
    \/ WriteSettings /\ UNCHANGED sketchVars

SpecLive ==
    /\ InitLive
    /\ [][NextLive]_vars
    /\ WF_vars(Loop1)
    /\ WF_vars(Loop2)
    /\ WF_vars(WriteMarker /\ UNCHANGED sketchVars)
    /\ WF_vars(WriteSettings /\ UNCHANGED sketchVars)

\* ===================================================== claims on the sketch
\* Store writes that loop() has issued in this session.
WritesIssued == Len(writeAddrs) + (IF pc = "idle" THEN 0 ELSE 1)

\* Every dirty mark but the first came strictly within the write delay of
\* the one before.
MarksWithinWindow ==
    \A i \in 2..Len(marks) : marks[i].gap < DELAY_TIME_BEFORE_WRITING_TO_EEPROM_IN_MS

\* Every dirty mark but the first came more than the write delay after the
\* one before, and loop() polled in between after that delay.
MarksSpaced ==
    \A i \in 2..Len(marks) :
        marks[i].gap > DELAY_TIME_BEFORE_WRITING_TO_EEPROM_IN_MS /\ marks[i - 1].polled

\* C11: coalescing.  Dirty marks that all fall strictly within the write
\* delay of their predecessor produce one store write (none before the
\* quiet poll, one after it); K dirty marks each spaced more than the write
\* delay apart, with loop() polling in between, produce K store writes (the
\* K-th once loop() polled after its delay).
C11_Coalescing ==
    (marks # <<>> /\ at = "loop") =>
        /\ MarksWithinWindow =>
              WritesIssued = (IF marks[Len(marks)].polled THEN 1 ELSE 0)
        /\ MarksSpaced =>
              WritesIssued = Len(marks) - (IF marks[Len(marks)].polled THEN 0 ELSE 1)

\* C12: quiescence bound.  A store write is issued only when at least the
\* write delay has passed since the last dirty mark, and a poll of loop()
\* that finds a dirty mark older than the write delay issues the write, at
\* every value of millis().
C12_QuiescenceBound ==
    [][Loop2 =>
          /\ (pc' = "erased") => sinceMark >= DELAY_TIME_BEFORE_WRITING_TO_EEPROM_IN_MS
          /\ (writeToEeprom /\ sinceMark > DELAY_TIME_BEFORE_WRITING_TO_EEPROM_IN_MS)
                => pc' = "erased"]_vars

\* The record at the cursor of the store is the settings object in memory.
Persisted ==
    /\ Word(eeprom_currentAddress) = DATA_MARKER
    /\ Get(EEPROM, eeprom_currentAddress + SIZE_OF_DATA_MARKER,
           SIZE_OF_SETTINGS_STRUCT, eeprom_sizeInBytes, addressWraps) = p

\* C13: every mutation of the settings in memory is marked dirty and written.
\* Once loop() has run twice after the last event, sees no change of its own
\* and has no write pending or in progress, the record in the store equals
\* the settings in memory.
C13_MutationsPersisted ==
    (at = "loop" /\ pc = "idle" /\ ~firstUse /\ polls >= 2 /\ ~writeToEeprom
        /\ ~Changed(p, oldEffect, oldDelayTime))
    => Persisted

\* The step is the handler of the event named.
Handled(name) == budget'.events < budget.events /\ lastEvent' = name

\* The encoder is turned while it selects the effect.
SelectStep(dir) == Handled(dir) /\ inSelectMode

\* C14: effect index wraparound.  In select mode a clockwise step moves the
\* effect index from 12 to 0 and otherwise one up, a counterclockwise step
\* moves it from 0 to 12 and otherwise one down; the index stays in 0..12.
C14_EffectWraparound ==
    /\ [](Running => Effect(p) \in 0..12)
    /\ [][/\ SelectStep("DIR_CW") =>
                Effect(p') = (IF Effect(p) = 12 THEN 0 ELSE Effect(p) + 1)
          /\ SelectStep("DIR_CCW") =>
                Effect(p') = (IF Effect(p) = 0 THEN 12 ELSE Effect(p) - 1)]_vars

\* A counterclockwise step has just taken the index from 0 to 12.
C14_Witness ==
    /\ lastEvent = "DIR_CCW"
    /\ inSelectMode
    /\ oldEffect = 0
    /\ Effect(p) = 12

\* C15: delay range.  After a boot from a valid record every delay time is
\* at least 7 and at most the maximum of its effect (100 for the
\* Decelerator, 60 for WowNotFlutter, 255 for the others).
C15_DelayRange ==
    (Running /\ ~firstUse) =>
        \A e \in 0..12 :
            /\ DelayTime(p, e) >= 7
            /\ DelayTime(p, e) <= (IF e = 0 THEN 100 ELSE IF e = 9 THEN 60 ELSE 255)

\* The encoder is turned while it sets the parameter, the delay time within
\* its range and not taken from the clock.
ParameterStep(dir) ==
    /\ Handled(dir)
    /\ ~inSelectMode
    /\ ~useSymbolicTimeString
    /\ DelayTime(p, Effect(p)) >= 7
    /\ DelayTime(p, Effect(p)) <= (IF Effect(p) = 0 THEN 100
                                   ELSE IF Effect(p) = 9 THEN 60 ELSE 255)

\* C16: clamped, not wrapped.  An encoder step in parameter mode moves the
\* delay time of the active effect by at most one and never out of its
\* range: at a bound it stays at the bound.
C16_ClampedNotWrapped ==
    [][(ParameterStep("DIR_CW") \/ ParameterStep("DIR_CCW")) =>
          /\ DelayTime(p', Effect(p)) - DelayTime(p, Effect(p)) \in {0 - 1, 0, 1}
          /\ DelayTime(p', Effect(p)) >= 7
          /\ DelayTime(p', Effect(p)) <= (IF Effect(p) = 0 THEN 100
                                          ELSE IF Effect(p) = 9 THEN 60 ELSE 255)]_vars

C18_LongPress ==
    [][Handled("long press") =>
          IF Effect(p) \in {1, 2, 3, 4, 5, 8, 12}
          THEN p' = [p EXCEPT ![14] = 1 - p[14]]
          ELSE p' = p]_vars

\* The flag in memory differs from the record after a long press in Short
\* Delay.
C18_Witness ==
    /\ lastEvent = "long press"
    /\ budget.events = MaxCtlEvents - 1
    /\ ~firstUse
    /\ Effect(p) = SHORT_DELAY
    /\ p[14] # Get(EEPROM, 17, 1, eeprom_sizeInBytes, addressWraps)[1]

\* The step is extClock() handling one pulse.
ClockStep == budget'.pulses < budget.pulses

\* The delay time d lies within the range of effect e.
DelayInRange(d, e) ==
    d >= 7 /\ d <= (IF e = 0 THEN 100 ELSE IF e = 9 THEN 60 ELSE 255)

\* The encoder is turned in parameter mode while the delay time is taken
\* from the clock.
SymbolicStep ==
    /\ Handled("DIR_CW") \/ Handled("DIR_CCW")
    /\ ~inSelectMode
    /\ ~fineTuneDelayTime
    /\ useSymbolicTimeString
    /\ Effect(p) \notin {6, 7, 8}

\* C19: tempo-derived recompute only where supported.  A clock pulse leaves
\* the delay time of Chorus, Fast Chorus and Reverb unchanged; a delay time
\* recomputed by a clock pulse or by an encoder step lies within
\* [7, maximum of the effect]; without a clock an encoder step moves the
\* delay time by one step or leaves it at a bound.
C19_TempoRecompute ==
    [][/\ (ClockStep /\ Effect(p) \in {6, 7, 8}) =>
              DelayTime(p', Effect(p)) = DelayTime(p, Effect(p))
       /\ (ClockStep /\ p' # p) => DelayInRange(DelayTime(p', Effect(p)), Effect(p))
       /\ SymbolicStep => DelayInRange(DelayTime(p', Effect(p)), Effect(p))
       /\ ((Handled("DIR_CW") \/ Handled("DIR_CCW")) /\ ~inSelectMode
               /\ ~useSymbolicTimeString) =>
              DelayTime(p', Effect(p)) \in
                  {DelayTime(p, Effect(p)), (DelayTime(p, Effect(p)) + 1) % 256,
                   (DelayTime(p, Effect(p)) - 1) % 256, 7,
                   IF Effect(p) = 0 THEN 100 ELSE IF Effect(p) = 9 THEN 60 ELSE 255}]_vars

\* C20: clock estimator window.  The third pulse of a window emits the mean
\* of the intervals accumulated in the window as the cycle time and resets
\* the pulse count and the interval sum; an earlier pulse only accumulates.
C20_EstimatorWindow ==
    [][ClockStep =>
          IF irqCounter + 1 = 3
          THEN /\ cycleTime' =
                     U32Div(U32Add(sumTime, U32Sub(Micros(now), oldTime)), 3)
               /\ irqCounter' = 0
               /\ sumTime' = U32Zero
               /\ useSymbolicTimeString'
          ELSE /\ irqCounter' = irqCounter + 1
               /\ sumTime' = U32Add(sumTime, U32Sub(Micros(now), oldTime))
               /\ cycleTime' = cycleTime]_vars

\* The last clock pulse is more than 2,000,000 microseconds ago.
PulseStale == U32Gt(U32Sub(Micros(now), thisTime), U32(2000000))

C22_NoCarryover ==
    [][(ClockStep /\ budget.pulses < MaxPulses /\ PulseStale) =>
          /\ sumTime' = U32Zero
          /\ irqCounter' \in {0, 1}
          /\ cycleTime' = cycleTime]_vars

\* C23: clock loss freezes the value.  The step of loop() that clears the
\* clock-present flag changes nothing in the settings, and while the clock
\* stays absent with no encoder or button event after the last pulse, no
\* step of loop() changes them either.
C23_ClockLossFreezes ==
    [][/\ (useSymbolicTimeString /\ ~useSymbolicTimeString') => p' = p
       /\ (~useSymbolicTimeString /\ cycleTime > 0 /\ ~ClockStep
              /\ lastEvent = "clock" /\ lastEvent' = "clock") => p' = p]_vars

\* The clock was lost after an estimate, and the delay time of the active
\* effect is still the tempo-derived one, not the one of the record.
C23_Witness ==
    /\ at = "loop"
    /\ cycleTime > 0
    /\ lastEvent = "clock"
    /\ ~useSymbolicTimeString
    /\ PulseStale
    /\ polls >= 1
    /\ DelayTime(p, Effect(p)) # SettingsMixed(SizeOfSettings)[Effect(p) + 1]

\* The step is an interrupt handler or a callback of the button: rotate(),
\* extClock(), setDelayTime(), finetuneDelayTime() or wetDryToggle().
HandlerStep == budget'.events < budget.events \/ budget'.pulses < budget.pulses

\* C24: no write to the store inside an interrupt handler.  A handler step
\* changes neither the EEPROM nor the state of the store; the EEPROM is
\* changed only by the constructor in setup() and by the write() that
\* loop() issues.
C24_NoWriteInHandler ==
    [][/\ HandlerStep =>
             /\ EEPROM' = EEPROM
             /\ pc' = pc
             /\ writeAddrs' = writeAddrs
             /\ eeprom_currentAddress' = eeprom_currentAddress
       /\ (EEPROM' # EEPROM) =>
             \/ at = "off"
             \/ at = "persist" /\ at' = "loop"
             \/ pc # "idle" /\ sketchVars' = sketchVars]_vars

\* A handler ran while a write() issued by loop() was in progress.
C24_Witness ==
    /\ pc # "idle"
    /\ Running
    /\ lastEvent \in {"DIR_CW", "DIR_CCW", "click", "double click", "long press",
                     "clock"}
    /\ polls = 0

\* C25: no display update inside an interrupt handler.  No handler that
\* draws on the display runs inside an interrupt service routine.
C25_NoDisplayInHandler == ~(isr /\ lastEvent \in UpdatesDisplay)

\* C26: NotFound at boot is first use.  After a boot that found no record,
\* loop() runs with the store not blocked and the EEPROM changed by the
\* empty sentinel only, and the settings in memory are in range: the effect
\* index in 0..12 and every delay time between 7 and its maximum.
C26_FirstUseDefaults ==
    (Running /\ firstUse /\ lastEvent = "off" /\ pc = "idle" /\ writeAddrs = <<>>) =>
        /\ ~blocked
        /\ EEPROM = Put([c \in 0..(eeprom_sizeInBytes - 1) |-> 255], 0,
                        EMPTY_MARKER, eeprom_sizeInBytes, FALSE)
        /\ Effect(p) \in 0..12
        /\ \A e \in 0..12 : DelayInRange(DelayTime(p, e), e)

\* The record at the cursor of the store.
StoredRecord ==
    Get(EEPROM, eeprom_currentAddress + SIZE_OF_DATA_MARKER,
        SIZE_OF_SETTINGS_STRUCT, eeprom_sizeInBytes, addressWraps)

\* The effect index and every delay time of s are in range.
FieldsInRange(s) ==
    /\ Effect(s) \in 0..12
    /\ \A e \in 0..12 : DelayInRange(DelayTime(s, e), e)

\* C27: out of range on load.  After a boot from a record, once loop() has
\* run twice with no encoder or button event, the effect index and every
\* delay time in memory are in range, and if the record in the store is not,
\* a write of the settings is pending.
C27_OutOfRangeOnLoad ==
    (at = "loop" /\ ~firstUse /\ lastEvent = "off" /\ polls >= 2 /\ pc = "idle") =>
        /\ FieldsInRange(p)
        /\ ~FieldsInRange(StoredRecord) => writeToEeprom

C30_NoLostDirtyMark ==
    /\ [][(at = "switch" /\ at' = "persist" /\ Changed(p, oldEffect, oldDelayTime))
            => (writeToEeprom /\ sinceMark = 0)]_vars
    /\ []((at = "loop" /\ pc = "idle" /\ ~firstUse /\ polls >= 2 /\ ~writeToEeprom
             /\ ~Changed(p, oldEffect, oldDelayTime))
          => /\ Effect(StoredRecord) = Effect(p)
             /\ DelayTime(StoredRecord, Effect(p)) = DelayTime(p, Effect(p)))

\* ============================================================ C31 .. C40
\* C33: on a store whose record is marker-aligned and fits with its marker,
\* the slot write() has put its marker at lies wholly below the capacity, so
\* every byte of marker and record lands at an address in [0, capacity): the
\* cursor is back at 0 whenever marker + record would not fit at the next
\* slot address.
C33_WritesInBounds ==
    (pc = "marked" /\ Levelling)
        => eeprom_currentAddress + SlotSize <= eeprom_sizeInBytes

\* C34: power lost after write() has put the new live marker and before the
\* record is behind it: after the next init() a read() returns either -1 or
\* a Settings value that some write() was given in full (every value a
\* write() is given is one of SettingsValues), never bytes that no write()
\* stored as a record.
C34_NoTornRecord ==
    (lastOps = <<"init", "read">> /\ crashPoint = "marked" /\ Levelling)
        => \/ ret = NotFound
           \/ p \in SettingsValues(SIZE_OF_SETTINGS_STRUCT)

\* C35: after a boot from valid settings and any sequence of encoder events,
\* every baseFactorIndex[e] is within 0 .. NR_OF_MULT_FACTORS - 1, so every
\* lookup into baseFactor[] and noteDurationStringTable[] is in bounds.
C35_RatioIndexInRange ==
    Running =>
        \A e \in 0..(NR_OF_EFFECTS - 1) :
            BaseFactorIndex(p, e) \in 0..(NR_OF_MULT_FACTORS - 1)

\* C36: after a boot from a store that holds a valid record, as long as no
\* encoder event, button event or clock pulse has occurred, loop() has not
\* marked the settings as to be written and no write() has been issued,
\* whichever effect was loaded.
C36_NoWriteAtStartup ==
    (Running /\ ~firstUse /\ lastEvent = "off")
        => (~writeToEeprom /\ marks = <<>> /\ writeAddrs = <<>>)

\* ------------------------------------------- the encoder between detents
\* A rotate() that takes a clockwise step although rotary.process() reports
\* no completed detent.
RotateNone_Steps ==
    /\ Running
    /\ Event("DIR_NONE")
    /\ p' = RotateCW(p, inSelectMode, fineTuneDelayTime, FALSE, countDirection, 0)
    /\ UNCHANGED <<storeVars, at, now, inSelectMode, fineTuneDelayTime,
                   countDirection, loopb, onlyOnce, useSymbolicTimeString,
                   cycleTime, irqCounter, sumTime, oldTime, thisTime, oldEffect,
                   oldDelayTime, writeToEeprom, writeTimer, sinceMark, marks, tmp>>

\* rotate() when rotary.process() returns neither DIR_CCW nor DIR_CW: both
\* if-statements are skipped and only the screen saver is restarted.
RotateNone ==
    /\ Running
    /\ Event("DIR_NONE")
    /\ UNCHANGED <<eepromVars, at, now, inSelectMode, fineTuneDelayTime,
                   countDirection, loopb, onlyOnce, useSymbolicTimeString,
                   cycleTime, irqCounter, sumTime, oldTime, thisTime, oldEffect,
                   oldDelayTime, writeToEeprom, writeTimer, sinceMark, marks, tmp>>

MaxFineEvents == 3       \* encoder and button events followed
MaxFineTicks  == 3       \* time steps followed
MaxFinePulses == 4       \* clock pulses followed

\* Settings at the lower end with a LEFT effect active, and at the upper end
\* with a RIGHT effect active.
FineRecords ==
    {SetEffect(SettingsLow(SizeOfSettings), PSYCHO),
     SetEffect(SettingsHigh(SizeOfSettings), SHORT_DELAY)}

\* The controls of the sketch with the encoder interrupt also firing between
\* two detents.
InitEnc ==
    InitSketch(FineRecords,
               [events |-> MaxCtlEvents, ticks |-> MaxCtlTicks, pulses |-> 0])

NextEnc == NextSketch \/ RotateNone

SpecEnc == InitEnc /\ [][NextEnc]_vars

InitFine ==
    InitSketch(FineRecords, [events |-> MaxFineEvents, ticks |-> MaxFineTicks,
                             pulses |-> MaxFinePulses])

TickFine == Tick(U32(LoopMs))

\* The encoder, the click and the double click, the clock and loop(); no
\* deferred write falls due within the time followed.
NextFine ==
    \/ SetupEeprom
    \/ SetupRest
    \/ RotateAny
    \/ SetDelayTime
    \/ FinetuneDelayTime
    \/ ExtClock
    \/ TickFine
    \/ Loop1
    \/ Loop2

SpecFine == InitFine /\ [][NextFine]_vars

\* C38: when the decoder reports no completed detent, rotate() changes no
\* effect index, delay time, ratio index, wet/dry flag or mode flag.
C38_NoEventNoChange ==
    [][Handled("DIR_NONE") =>
          /\ p' = p
          /\ inSelectMode' = inSelectMode
          /\ fineTuneDelayTime' = fineTuneDelayTime]_vars

\* rotate() has just run without a completed detent.
C38_Witness == Running /\ lastEvent = "DIR_NONE" /\ polls = 0

\* C39: in select mode an encoder step changes nothing of the settings but
\* the effect index; in parameter mode it leaves the effect index, the
\* wet/dry flag and the delay times and ratio indices of all other effects
\* as they are; in neither mode does it change a mode flag.
C39_ModeScopedEncoder ==
    [][(Handled("DIR_CW") \/ Handled("DIR_CCW")) =>
          /\ inSelectMode' = inSelectMode
          /\ fineTuneDelayTime' = fineTuneDelayTime
          /\ inSelectMode => p' = SetEffect(p, Effect(p'))
          /\ ~inSelectMode =>
                /\ Effect(p') = Effect(p)
                /\ IsWetAndDrySelected(p') = IsWetAndDrySelected(p)
                /\ \A e \in 0..(NR_OF_EFFECTS - 1) \ {Effect(p)} :
                      /\ DelayTime(p', e) = DelayTime(p, e)
                      /\ BaseFactorIndex(p', e) = BaseFactorIndex(p, e)]_vars

\* A counterclockwise step has just selected another effect.
C39_Witness ==
    /\ lastEvent = "DIR_CCW"
    /\ polls = 0
    /\ inSelectMode
    /\ Effect(p) # oldEffect

\* A step of the encoder in parameter mode while fine tuning is on.
FineStep(dir) == Handled(dir) /\ ~inSelectMode /\ fineTuneDelayTime

\* One step up or down from d, kept within the range of effect e.
OneStep(d, e, up) ==
    IF up THEN (IF d + 1 > delayTimeMax(e) THEN delayTimeMax(e) ELSE d + 1)
    ELSE (IF d - 1 < DELAY_TIME_MIN THEN DELAY_TIME_MIN ELSE d - 1)

\* C40: while fine tuning is on, a clock pulse leaves every delay time as it
\* is, and an encoder step in parameter mode moves the delay time of the
\* active effect by exactly one step in the direction of countDirection and
\* then clamps it to its range, with or without an external clock.
C40_FineTuneIsolates ==
    [][/\ (ClockStep /\ fineTuneDelayTime) =>
              \A e \in 0..(NR_OF_EFFECTS - 1) : DelayTime(p', e) = DelayTime(p, e)
       /\ (FineStep("DIR_CW") /\ DelayInRange(DelayTime(p, Effect(p)), Effect(p))) =>
              DelayTime(p', Effect(p)) =
                  OneStep(DelayTime(p, Effect(p)), Effect(p), countDirection = RIGHT)
       /\ (FineStep("DIR_CCW") /\ DelayInRange(DelayTime(p, Effect(p)), Effect(p))) =>
              DelayTime(p', Effect(p)) =
                  OneStep(DelayTime(p, Effect(p)), Effect(p), countDirection = LEFT)]_vars

\* ------------------------------------- loop(), the effect block in two steps
\* loop(), the second change test and the head of the block behind it:
\* countDirection and loopb get their defaults and the change detector is
\* synchronised.
LoopReset ==
    /\ at = "switch"
    /\ IF Changed(p, oldEffect, oldDelayTime) \/ loopb \/ onlyOnce
       THEN /\ at' = "case"
            /\ onlyOnce' = FALSE
            /\ countDirection' = RIGHT
            /\ loopb' = FALSE
            /\ oldEffect' = Effect(p)
            /\ oldDelayTime' =
                  [oldDelayTime EXCEPT ![Effect(p)] = DelayTime(p, Effect(p))]
       ELSE /\ at' = "persist"
            /\ UNCHANGED <<onlyOnce, countDirection, loopb, oldEffect, oldDelayTime>>
    /\ UNCHANGED <<eepromVars, now, inSelectMode, fineTuneDelayTime,
                   writeToEeprom, writeTimer, marks, sinceMark,
                   useSymbolicTimeString, cycleTime, irqCounter, sumTime,
                   oldTime, thisTime, polls, lastEvent, isr, budget, tmp>>

\* loop(), switch(settings.effect): the case of the effect that is active
\* now sets loopb and countDirection = LEFT where it does.
LoopCase ==
    /\ at = "case"
    /\ at' = "persist"
    /\ countDirection' = IF Effect(p) \in LeftEffects THEN LEFT ELSE countDirection
    /\ loopb' = (loopb \/ Effect(p) \in LoopbEffects)
    /\ p' = DeceleratorClamp(p)
    /\ UNCHANGED <<storeVars, now, inSelectMode, fineTuneDelayTime, onlyOnce,
                   oldEffect, oldDelayTime, writeToEeprom, writeTimer, marks,
                   sinceMark, useSymbolicTimeString, cycleTime, irqCounter,
                   sumTime, oldTime, thisTime, polls, lastEvent, isr, budget, tmp>>

\* The controls of the sketch, with the interrupt handlers also running
\* between the steps of the effect block of loop().
NextDir ==
    \/ SetupEeprom
    \/ SetupRest
    \/ RotateAny
    \/ SetDelayTime
    \/ FinetuneDelayTime
    \/ WetDryToggle
    \/ TickSketch
    \/ LoopMark
    \/ LoopReset
    \/ LoopCase
    \/ Loop2
    \/ WriteMarker /\ UNCHANGED sketchVars
    \/ WriteSettings /\ UNCHANGED sketchVars

SpecDir == InitEnc /\ [][NextDir]_vars

\* C32: whenever an encoder step is applied in parameter mode, countDirection
\* is the convention of the effect that is active at that moment: LEFT for
\* Reverb, WowNotFlutter, Telegraph, TeleVerb and Psycho, RIGHT for all
\* others.
C32_DirectionFollowsEffect ==
    [][((Handled("DIR_CW") \/ Handled("DIR_CCW")) /\ ~inSelectMode) =>
          countDirection = (IF Effect(p) \in {8, 9, 10, 11, 12} THEN LEFT
                            ELSE RIGHT)]_vars

\* --------------------------------- writeSettingsToEeprom(), the copy apart
\* eeprom.write(settings) takes its argument by value: the bytes of the
\* global settings are copied one after the other, lowest address first,
\* with the interrupts enabled.  How many bytes are copied before an
\* interrupt handler next runs is open.
CopyCuts == 0..SizeOfSettings

\* The handlers still to be explored.
HandlersLeft == budget.events + budget.pulses

\* writeSettingsToEeprom() when the write is due: the flag is cleared and
\* the copy of the argument begins.  tmp holds the settings the bytes copied
\* so far come from, how many they are, and HandlersLeft at this moment.
LoopCopy ==
    /\ at = "persist"
    /\ Due(now)
    /\ pc = "idle"
    /\ ~blocked
    /\ Len(writeAddrs) < MaxSketchWrites
    /\ at' = "copy"
    /\ writeToEeprom' = FALSE
    /\ \E k \in CopyCuts :
          tmp' = [first |-> p, copied |-> k, handlers |-> HandlersLeft]
    /\ UNCHANGED <<eepromVars, now, inSelectMode, fineTuneDelayTime,
                   countDirection, loopb, onlyOnce, useSymbolicTimeString,
                   cycleTime, irqCounter, sumTime, oldTime, thisTime, oldEffect,
                   oldDelayTime, writeTimer, sinceMark, marks, polls, lastEvent,
                   isr, budget>>

\* The argument write() receives: the bytes copied before the interruption
\* and, behind them, the bytes of the settings as they are now.
CopiedSettings(first, k, s) == [i \in 1..Len(s) |-> IF i <= k THEN first[i] ELSE s[i]]

\* The rest of the copy, write() up to eraseMarkerByte(), and loop() to its
\* end.
LoopWrite ==
    /\ at = "copy"
    /\ at' = "loop"
    /\ WriteErase(CopiedSettings(tmp.first, tmp.copied, p), MaxSketchWrites)
    /\ tmp' = <<>>
    /\ useSymbolicTimeString' = (useSymbolicTimeString /\ ~ClockLost(now))
    /\ polls' = Min(polls + 1, 2)
    /\ marks' = IF marks # <<>> /\ sinceMark > DELAY_TIME_BEFORE_WRITING_TO_EEPROM_IN_MS
                THEN [marks EXCEPT ![Len(marks)].polled = TRUE]
                ELSE marks
    /\ UNCHANGED <<now, inSelectMode, fineTuneDelayTime, countDirection, loopb,
                   onlyOnce, cycleTime, irqCounter, sumTime, oldTime, thisTime,
                   oldEffect, oldDelayTime, writeToEeprom, writeTimer, sinceMark,
                   lastEvent, isr, budget>>

\* loop() from writeSettingsToEeprom() on when no write is due.
LoopIdle == ~Due(now) /\ Loop2

MaxSnapEvents == 3       \* encoder and button events followed
MaxSnapTicks  == 2       \* time steps followed

InitSnap ==
    InitSketch(SchedRecords,
               [events |-> MaxSnapEvents, ticks |-> MaxSnapTicks, pulses |-> 0])

\* The encoder and the click, loop() with the copy of the settings as a step
\* of its own, and the store.
NextSnap ==
    \/ SetupEeprom
    \/ SetupRest
    \/ RotateAny
    \/ SetDelayTime
    \/ TickSketch
    \/ Loop1
    \/ LoopIdle
    \/ LoopCopy
    \/ LoopWrite
    \/ WriteMarker /\ UNCHANGED sketchVars
    \/ WriteSettings /\ UNCHANGED sketchVars

SpecSnap == InitSnap /\ [][NextSnap]_vars

\* C31: the record a deferred write stores equals the settings in memory as
\* they stood at one instant.  With at most one interrupt handler running
\* while the argument of write() is copied, these are the settings before
\* or the settings after that handler.
C31_ConsistentSnapshot ==
    [][(at = "copy" /\ at' = "loop" /\ tmp.handlers - HandlersLeft <= 1) =>
          settings' \in {tmp.first, p}]_vars

\* ------------------------------------ loop(), the clock timeout test apart
\* The test useSymbolicTimeString & ((micros() - thisTime) > EXT_CLOCK_TIMEOUT)
\* reads the flag, calls micros() and reads the four bytes of thisTime one
\* after the other, in an order the compiler chooses and with the interrupts
\* enabled.
\* Byte k (0 the lowest) of an unsigned long.
U32Byte(a, k) ==
    IF k = 0 THEN a[2] % 256
    ELSE IF k = 1 THEN a[2] \div 256
    ELSE IF k = 2 THEN a[1] % 256
    ELSE a[1] \div 256

\* The unsigned long made of four bytes, lowest first.
U32OfBytes(b) == <<b[4] * 256 + b[3], b[2] * 256 + b[1]>>

\* thisTime as loop() reads it when its k lowest bytes were read from the
\* value old and the others are read from the value new.
TornRead(old, new, k) ==
    U32OfBytes([i \in 1..4 |-> IF i <= k THEN U32Byte(old, i - 1)
                               ELSE U32Byte(new, i - 1)])

\* What loop() may have read of the test when it is next interrupted: the
\* flag or not yet (<<>>), the value of micros() or not yet (<<>>), and the
\* lowest bytes of thisTime.
Samples ==
    [flag : {<<>>, <<useSymbolicTimeString>>}, micros : {<<>>, Micros(now)},
     thisTime : {thisTime}, bytes : 0..4]

\* loop() from writeSettingsToEeprom() to the first reads of the timeout
\* test.
LoopSample ==
    /\ at = "persist"
    /\ at' = "timeout"
    /\ IF Due(now)
       THEN /\ writeToEeprom' = FALSE
            /\ WriteErase(p, MaxSketchWrites)
       ELSE UNCHANGED <<writeToEeprom, eepromVars>>
    /\ tmp' \in Samples
    /\ UNCHANGED <<now, inSelectMode, fineTuneDelayTime, countDirection, loopb,
                   onlyOnce, useSymbolicTimeString, cycleTime, irqCounter,
                   sumTime, oldTime, thisTime, oldEffect, oldDelayTime,
                   writeTimer, sinceMark, marks, polls, lastEvent, isr, budget>>

\* The timeout test as loop() evaluates it from what it read before and
\* what it reads now.
TimedOut(sample, flag, t, last) ==
    /\ IF sample.flag = <<>> THEN flag ELSE sample.flag[1]
    /\ U32Gt(U32Sub(IF sample.micros = <<>> THEN Micros(t) ELSE sample.micros,
                    TornRead(sample.thisTime, last, sample.bytes)),
             U32(EXT_CLOCK_TIMEOUT))

\* loop(), the remaining reads of the timeout test and its outcome.
LoopTimeout ==
    /\ at = "timeout"
    /\ at' = "loop"
    /\ useSymbolicTimeString' =
          IF TimedOut(tmp, useSymbolicTimeString, now, thisTime) THEN FALSE
          ELSE useSymbolicTimeString
    /\ tmp' = <<>>
    /\ polls' = Min(polls + 1, 2)
    /\ marks' = IF marks # <<>> /\ sinceMark > DELAY_TIME_BEFORE_WRITING_TO_EEPROM_IN_MS
                THEN [marks EXCEPT ![Len(marks)].polled = TRUE]
                ELSE marks
    /\ UNCHANGED <<eepromVars, now, inSelectMode, fineTuneDelayTime,
                   countDirection, loopb, onlyOnce, cycleTime, irqCounter,
                   sumTime, oldTime, thisTime, oldEffect, oldDelayTime,
                   writeToEeprom, writeTimer, sinceMark, lastEvent, isr, budget>>

MaxTimeoutTicks  == 4    \* time steps followed
MaxTimeoutPulses == 5    \* clock pulses followed

\* A millisecond, and the time after which a deferred write is due.
TimeoutTicks == {U32(1), U32(DELAY_TIME_BEFORE_WRITING_TO_EEPROM_IN_MS + 1)}

InitTimeout ==
    InitSketch(SchedRecords, [events |-> 0, ticks |-> MaxTimeoutTicks,
                              pulses |-> MaxTimeoutPulses])

TickTimeout == \E d \in TimeoutTicks : Tick(d)

\* The clock and loop(), with the clock interrupt also arriving inside the
\* timeout test.
NextTimeout ==
    \/ SetupEeprom
    \/ SetupRest
    \/ ExtClock
    \/ TickTimeout
    \/ Loop1
    \/ LoopSample
    \/ LoopTimeout
    \/ WriteMarker /\ UNCHANGED sketchVars
    \/ WriteSettings /\ UNCHANGED sketchVars

SpecTimeout == InitTimeout /\ [][NextTimeout]_vars

\* C37: loop() clears useSymbolicTimeString only when more than 2,000,000
\* microseconds have passed since the most recent clock pulse, whose time
\* extClock() has left in thisTime.
C37_ClockAbsentOnSilence ==
    [][(useSymbolicTimeString /\ ~useSymbolicTimeString') =>
          U32Gt(U32Sub(Micros(now), thisTime), U32(2000000))]_vars

====
